---- MODULE Spec2Model ----
(***************************************************************************)
(* The agent-airwave workflow: the LangGraph state machine built in        *)
(* airwave_agent_swarm.py (airwave_swarm_app) and in silicon_swarm_4g.py   *)
(* (app).  A run holds one SwarmState record; each step invokes the        *)
(* current node, merges the returned update into the record and asks the   *)
(* node's outgoing edge for the next node.                                 *)
(***************************************************************************)
EXTENDS Integers, Sequences, FiniteSets, TLC

\* ------------------------------------------------------------------ bounds
\* Largest number of failed hardening passes a run of Spec goes through (the
\* physical_design -> rtl_engineer cycle has no counter of its own).
MaxPdFail == 2

\* ---------------------------------------------------------------- constants
\* The literal of `if state["retry_count"] >= 5` in orchestrator_node.
RETRY_LIMIT == 5

\* Python's None, and langgraph's END node.
None == "None"
END == "__end__"
\* A run aborted by an exception raised while resolving a conditional edge.
ROUTING_ERROR == "routing_error"

\* Room for every node invocation of a run of Spec: RETRY_LIMIT failed
\* verification cycles of four nodes, three nodes per hardening rework, the
\* last judge/physical_design pair or orchestrator/human_intervention pair.
TraceCap == 4 * RETRY_LIMIT + 3 * MaxPdFail + 2

VARIABLES
    app,          \* which compiled graph runs: "airwave" or "silicon"
    toolchain,    \* "simulated": the scripts' stand-in outcomes; "live": the
                  \* EDA / OpenLane calls the stand-ins replace decide
    state,        \* the SwarmState record of the run
    node,         \* the node to invoke next, END, or how the run stopped
    trace,        \* the nodes invoked so far, in order (the first TraceCap)
    last,         \* the node invoked last, "none" before the first
    verdict,      \* outcome of the latest judge invocation: "none" before any
    pd_failures,  \* failed hardening passes so far (saturates at MaxPdFail)
    outcomes,     \* what each judge and physical_design invocation reported,
                  \* in order (the first TraceCap)
    returned,     \* the update the node invoked last returned
    other,        \* a second run of the process, parked while this one steps
    dut,          \* the AXI4-Stream signals of the design under test, as
                  \* read after the latest rising edge of dut.clk
    i_data,       \* the I samples the capture loop has appended
    q_data,       \* the Q samples the capture loop has appended
    expected_samples,  \* the argument of capture_axis_data
    tb            \* where the testbench is: "off", "reset", "capture", "done"

tb_vars == <<dut, i_data, q_data, expected_samples, tb>>

vars == <<app, toolchain, state, node, trace, last, verdict, pd_failures,
          outcomes, returned, other, tb_vars>>

\* ------------------------------------------------------------ SwarmState
Apps == {"airwave", "silicon"}
Toolchains == {"simulated", "live"}

Fields == {"task_description", "spec_block", "rtl_code", "judge_feedback",
           "pd_feedback", "status", "retry_count", "budget_alert"}

\* The record each script passes to stream() / invoke().
initial_state(a) ==
    [task_description |-> IF a = "airwave" THEN "Design LTE PSS Generator module"
                                           ELSE "Design LTE PSS Generator",
     spec_block       |-> None,
     rtl_code         |-> None,
     judge_feedback   |-> None,
     pd_feedback      |-> None,
     status           |-> IF a = "airwave" THEN "NEW" ELSE "START",
     retry_count      |-> 0,
     budget_alert     |-> FALSE]

\* A node that returns nothing (the airwave human_intervention lambda).
NoUpdate == [k \in {} |-> None]

\* Mutant: retry_count declared with an adding reducer.
Merge_add(s, update) ==
    [k \in DOMAIN s |-> IF k \in DOMAIN update
                        THEN IF k = "retry_count" THEN s[k] + update[k]
                                                  ELSE update[k]
                        ELSE s[k]]

\* StateGraph(SwarmState): every key is a last-value channel, so a key the
\* update holds is overwritten and every other key is kept.
Merge(s, update) ==
    [k \in DOMAIN s |-> IF k \in DOMAIN update THEN update[k] ELSE s[k]]

\* ----------------------------------------------------------------- nodes
\* Mutant: the test the comment words ("retry_count > 5").
orchestrator_node_gt(s) ==
    IF s.retry_count > RETRY_LIMIT
    THEN [status |-> "HALTED", budget_alert |-> TRUE]
    ELSE [status |-> "TASK_APPROVED"]

\* Mutant: the halt forgets to raise the alert.
orchestrator_node_noalert(s) ==
    IF s.retry_count >= RETRY_LIMIT
    THEN [status |-> "HALTED"]
    ELSE [status |-> "TASK_APPROVED"]

orchestrator_node(s) ==
    IF s.retry_count >= RETRY_LIMIT
    THEN [status |-> "HALTED", budget_alert |-> TRUE]
    ELSE [status |-> "TASK_APPROVED"]

\* Mutant: the librarian rewrites the task it looked up.
librarian_node_retitle(s) ==
    [spec_block |-> "PSS_SPEC", status |-> "SPEC_READY",
     task_description |-> "LTE PSS Generator"]

\* Mutant: the librarian hands on a record cleared of old feedback.
librarian_node_fresh(s) ==
    [spec_block |-> "PSS_SPEC", status |-> "SPEC_READY", judge_feedback |-> None]

librarian_node(s) == [spec_block |-> "PSS_SPEC", status |-> "SPEC_READY"]

\* Mutant: the engineer consumes the feedback it applied.
rtl_engineer_node_consume(s) ==
    [rtl_code |-> "lte_pss_gen", status |-> "CODED", judge_feedback |-> None]

rtl_engineer_node(s) == [rtl_code |-> "lte_pss_gen", status |-> "CODED"]

\* What the EDA toolchain reports for the record's rtl_code: TRUE for a
\* failure.  The scripts simulate it as `state["retry_count"] == 0`.
EdaToolchain(s, tc) ==
    IF tc = "simulated" THEN {s.retry_count = 0} ELSE BOOLEAN

\* Mutant: the failures are counted in a module-level counter all runs share.
verification_judge_node_shared(s, lint_failed) ==
    IF lint_failed
    THEN [judge_feedback |-> "ERR-001",
          status         |-> "FAILED_VERIFICATION",
          retry_count    |-> (IF s.retry_count > other.state.retry_count
                              THEN s.retry_count
                              ELSE other.state.retry_count) + 1]
    ELSE [judge_feedback |-> None, status |-> "VERIFIED"]

\* Mutant: a passing verification leaves the old feedback in place.
verification_judge_node_stale(s, lint_failed) ==
    IF lint_failed
    THEN [judge_feedback |-> "ERR-001",
          status         |-> "FAILED_VERIFICATION",
          retry_count    |-> s.retry_count + 1]
    ELSE [status |-> "VERIFIED"]

\* Mutant: a failed verification is not counted.
verification_judge_node_nocount(s, lint_failed) ==
    IF lint_failed
    THEN [judge_feedback |-> "ERR-001", status |-> "FAILED_VERIFICATION"]
    ELSE [judge_feedback |-> None, status |-> "VERIFIED"]

\* Mutant: a passing verification starts the retry count over.
verification_judge_node_reset(s, lint_failed) ==
    IF lint_failed
    THEN [judge_feedback |-> "ERR-001",
          status         |-> "FAILED_VERIFICATION",
          retry_count    |-> s.retry_count + 1]
    ELSE [judge_feedback |-> None, status |-> "VERIFIED", retry_count |-> 0]

verification_judge_node(s, lint_failed) ==
    IF lint_failed
    THEN [judge_feedback |-> "ERR-001",
          status         |-> "FAILED_VERIFICATION",
          retry_count    |-> s.retry_count + 1]
    ELSE [judge_feedback |-> None, status |-> "VERIFIED"]

\* What the OpenLane flow reports: TRUE for timing closed.  The scripts
\* simulate a flow that always closes.
OpenLaneFlow(tc) == IF tc = "simulated" THEN {TRUE} ELSE BOOLEAN

physical_design_node(s) == [status |-> "GDSII_HARDENED"]

\* The Hardener's failing outcome, which the scripts' stand-in never takes.
physical_design_failed(s) ==
    [pd_feedback |-> "PD-ADVISORY", status |-> "FAILED_HARDENING"]

\* Mutant: the pause acknowledges the alert.
human_intervention_ack(s) == [budget_alert |-> FALSE]

\* airwave: lambda x: print(...) returns None, so nothing is merged.
human_intervention(s) == NoUpdate

\* Mutant: the pause has a status of its own.
silicon_human_intervention_paused(s) == [status |-> "PAUSED"]

\* silicon: lambda state: {"status": "HALTED"}.
silicon_human_intervention(s) == [status |-> "HALTED"]

\* --------------------------------------------------------------- routers
\* Mutant: the router tests a status the orchestrator never sets.
route_after_orchestrator_typo(s) ==
    IF s.status = "HALT" THEN "human_intervention" ELSE "librarian"

route_after_orchestrator(s) ==
    IF s.status = "HALTED" THEN "human_intervention" ELSE "librarian"

\* Mutant: the failure branch tests a status the judge never sets.
route_after_judge_typo(s) ==
    IF s.status = "VERIFIED" THEN "physical_design"
    ELSE IF s.status = "FAILED" THEN "orchestrator"
    ELSE None

\* Mutant: a failed verification is sent on to hardening.
route_after_judge_lenient(s) ==
    IF s.status = "VERIFIED" THEN "physical_design"
    ELSE IF s.status = "FAILED_VERIFICATION" THEN "physical_design"
    ELSE None

route_after_judge(s) ==
    IF s.status = "VERIFIED" THEN "physical_design"
    ELSE IF s.status = "FAILED_VERIFICATION" THEN "orchestrator"
    ELSE None

\* Mutant: the router tests the status under another name.
route_after_physical_design_name(s) ==
    IF s.status = "HARDENED" THEN "end" ELSE "rtl_engineer"

route_after_physical_design(s) ==
    IF s.status = "GDSII_HARDENED" THEN "end" ELSE "rtl_engineer"

\* ----------------------------------------------------------------- edges
JudgeName(a) == IF a = "airwave" THEN "judge" ELSE "verification_judge"

Nodes(a) == {"orchestrator", "librarian", "rtl_engineer", JudgeName(a),
             "physical_design", "human_intervention"}

\* The target maps airwave gives add_conditional_edges.
orchestrator_targets ==
    [librarian |-> "librarian", human_intervention |-> "human_intervention"]
\* Mutant: a failed verification goes straight back to the coder.
judge_targets_skip ==
    [physical_design |-> "physical_design", orchestrator |-> "rtl_engineer"]
judge_targets ==
    [physical_design |-> "physical_design", orchestrator |-> "orchestrator"]
\* Mutant: a failed hardening goes back through the librarian.
physical_design_targets_librarian ==
    [end |-> END, rtl_engineer |-> "librarian"]
physical_design_targets == [end |-> END, rtl_engineer |-> "rtl_engineer"]

\* A conditional edge: with a target map the router's value is looked up in
\* it (a value it does not hold raises); without one (silicon) the value is
\* itself the destination and None raises.  In silicon the value "end" of
\* route_after_physical_design names no node, so no node is scheduled after
\* it and the run stops there.
ConditionalEdge(a, targets, r) ==
    IF a = "airwave"
    THEN IF r \in DOMAIN targets THEN targets[r] ELSE ROUTING_ERROR
    ELSE IF r = None THEN ROUTING_ERROR ELSE r

after_orchestrator(a, s) ==
    ConditionalEdge(a, orchestrator_targets, route_after_orchestrator(s))
after_judge(a, s) ==
    ConditionalEdge(a, judge_targets, route_after_judge(s))
after_physical_design(a, s) ==
    ConditionalEdge(a, physical_design_targets, route_after_physical_design(s))

\* ------------------------------------------------------------ the engine
Running == node \in Nodes(app)

\* One output of stream() per node invocation.
Record(n) ==
    /\ trace' = IF Len(trace) < TraceCap THEN Append(trace, n) ELSE trace
    /\ last' = n

\* The outcome of a judge or physical_design invocation, for the record.
Report(o) ==
    outcomes' = IF Len(outcomes) < TraceCap THEN Append(outcomes, o) ELSE outcomes

\* No second run.
NoRun == [id |-> 0]

\* No cocotb test is running.
NoTestbench ==
    /\ dut = [m_axis_tvalid |-> 0, m_axis_tready |-> 0, m_axis_tlast |-> 0,
              m_axis_tdata |-> 0]
    /\ i_data = <<>>
    /\ q_data = <<>>
    /\ expected_samples = 0
    /\ tb = "off"

\* A run as stream() / invoke() starts it.
RunInit ==
    /\ app \in Apps
    /\ toolchain \in Toolchains
    /\ state = initial_state(app)
    /\ node = "orchestrator"            \* add_edge(START, "orchestrator")
    /\ trace = <<>>
    /\ last = "none"
    /\ verdict = "none"
    /\ pd_failures = 0
    /\ outcomes = <<>>
    /\ returned = NoUpdate
    /\ NoTestbench

Init ==
    /\ RunInit
    /\ other = NoRun

Orchestrator ==
    /\ node = "orchestrator"
    /\ LET s2 == Merge(state, orchestrator_node(state)) IN
          /\ returned' = orchestrator_node(state)
          /\ state' = s2
          /\ node' = after_orchestrator(app, s2)
    /\ Record("orchestrator")
    /\ UNCHANGED <<app, toolchain, verdict, pd_failures, outcomes, other,
                   tb_vars>>

Librarian ==
    /\ node = "librarian"
    /\ returned' = librarian_node(state)
    /\ state' = Merge(state, librarian_node(state))
    /\ node' = "rtl_engineer"           \* add_edge("librarian", "rtl_engineer")
    /\ Record("librarian")
    /\ UNCHANGED <<app, toolchain, verdict, pd_failures, outcomes, other,
                   tb_vars>>

RtlEngineer ==
    /\ node = "rtl_engineer"
    /\ returned' = rtl_engineer_node(state)
    /\ state' = Merge(state, rtl_engineer_node(state))
    /\ node' = JudgeName(app)           \* add_edge("rtl_engineer", "judge")
    /\ Record("rtl_engineer")
    /\ UNCHANGED <<app, toolchain, verdict, pd_failures, outcomes, other,
                   tb_vars>>

Judge ==
    /\ node = JudgeName(app)
    /\ \E lint_failed \in EdaToolchain(state, toolchain) :
          LET s2 == Merge(state, verification_judge_node(state, lint_failed)) IN
             /\ returned' = verification_judge_node(state, lint_failed)
             /\ state' = s2
             /\ node' = after_judge(app, s2)
             /\ verdict' = IF lint_failed THEN "failed" ELSE "passed"
             /\ Report(IF lint_failed THEN "failed" ELSE "passed")
    /\ Record(JudgeName(app))
    /\ UNCHANGED <<app, toolchain, pd_failures, other, tb_vars>>

\* bounded: whether the run is one of at most MaxPdFail hardening failures.
PhysicalDesign(bounded) ==
    /\ node = "physical_design"
    /\ \E closed \in OpenLaneFlow(toolchain) :
          /\ closed \/ ~bounded \/ pd_failures < MaxPdFail
          /\ LET u == IF closed THEN physical_design_node(state)
                                ELSE physical_design_failed(state)
                 s2 == Merge(state, u) IN
                /\ returned' = u
                /\ state' = s2
                /\ node' = after_physical_design(app, s2)
          /\ Report(IF closed THEN "hardened" ELSE "rework")
          /\ pd_failures' = IF closed \/ pd_failures >= MaxPdFail
                            THEN pd_failures ELSE pd_failures + 1
    /\ Record("physical_design")
    /\ UNCHANGED <<app, toolchain, verdict, other, tb_vars>>

HumanIntervention ==
    /\ node = "human_intervention"
    /\ LET u == IF app = "airwave" THEN human_intervention(state)
                                    ELSE silicon_human_intervention(state) IN
          /\ returned' = u
          /\ state' = Merge(state, u)
    /\ node' = END                      \* add_edge("human_intervention", END)
    /\ Record("human_intervention")
    /\ UNCHANGED <<app, toolchain, verdict, pd_failures, outcomes, other,
                   tb_vars>>

Next ==
    \/ Orchestrator
    \/ Librarian
    \/ RtlEngineer
    \/ Judge
    \/ PhysicalDesign(TRUE)
    \/ HumanIntervention

Spec == Init /\ [][Next]_vars

\* A run whose hardening failures nothing bounds, as the graph allows them.
NextFree ==
    \/ Orchestrator
    \/ Librarian
    \/ RtlEngineer
    \/ Judge
    \/ PhysicalDesign(FALSE)
    \/ HumanIntervention

\* stream() / invoke() keep stepping while a node is scheduled.
FairSpec == Init /\ [][NextFree]_vars /\ WF_vars(NextFree)

Stopped == ~Running

\* The nodes that do the pipeline's work (Librarian, Generator, Verifier,
\* Hardener).
WorkNodes == {"librarian", "rtl_engineer", JudgeName(app), "physical_design"}

C2_RetryCountSteps ==
    [][ /\ state'.retry_count >= state.retry_count
        /\ IF node = JudgeName(app) /\ state'.status = "FAILED_VERIFICATION"
           THEN state'.retry_count = state.retry_count + 1
           ELSE state'.retry_count = state.retry_count ]_vars

\* A run that failed verification twice and hardening once, and has ended.
C2_Witness ==
    /\ state.retry_count = 2
    /\ pd_failures = 1
    /\ Stopped

\* ------------------------------------------------------------------- C3
\* The run stopped where the graph ends: after a physical_design pass that
\* hardened the design, or after human_intervention on a halted record.
StoppedAtEnd ==
    /\ Stopped
    /\ \/ last = "physical_design" /\ state.status = "GDSII_HARDENED"
       \/ last = "human_intervention" /\ state.status = "HALTED"

\* C3 as stated: every run stops, whatever the judge and physical_design
\* outcomes are.
C3_AlwaysTerminates == <>StoppedAtEnd

\* C3 as amended: every run in which physical_design fails only finitely
\* often stops, after GDSII_HARDENED or after human_intervention on HALTED;
\* the runs that never stop are those whose hardening keeps failing.
C3_TerminatesUnlessHardeningLoops ==
    <>StoppedAtEnd \/ []<>(state.status = "FAILED_HARDENING")

\* A run that failed hardening, was reworked, and has hardened and stopped.
C3_Witness ==
    /\ StoppedAtEnd
    /\ state.status = "GDSII_HARDENED"
    /\ pd_failures >= 1
    /\ state.retry_count >= 1

C5_HaltedImpliesAlert == state.status = "HALTED" => state.budget_alert = TRUE

\* The silicon human_intervention node has written status = HALTED.
C5_Witness ==
    /\ app = "silicon"
    /\ last = "human_intervention"
    /\ state.status = "HALTED"

\* ------------------------------------------------------------------- C6
FeedbackPresent == state.judge_feedback # None

\* C6 as stated: judge_feedback is present if and only if
\* status = FAILED_VERIFICATION.
C6_FeedbackIffFailedStatus ==
    FeedbackPresent <=> state.status = "FAILED_VERIFICATION"

\* C6 as amended: status = FAILED_VERIFICATION implies judge_feedback is
\* present, and judge_feedback is present only under the statuses a failed
\* verification is followed by until the next judge invocation:
\* FAILED_VERIFICATION, TASK_APPROVED, HALTED, SPEC_READY, CODED.
C6_FeedbackFollowsFailure ==
    /\ state.status = "FAILED_VERIFICATION" => FeedbackPresent
    /\ FeedbackPresent => state.status \in {"FAILED_VERIFICATION", "TASK_APPROVED",
                                            "HALTED", "SPEC_READY", "CODED"}

\* The rtl_engineer has rerun on a failed verification's feedback.
C6_Witness ==
    /\ FeedbackPresent
    /\ state.status = "CODED"
    /\ last = "rtl_engineer"

\* ------------------------------------------------------------------- C7
\* C7: judge_feedback is present if and only if the judge has been invoked
\* and its latest invocation failed; it is absent before the first
\* verification and after a passing one.
C7_FeedbackIffLastVerdictFailed == FeedbackPresent <=> verdict = "failed"

\* A passing verification has cleared the feedback of an earlier failure.
C7_Witness ==
    /\ verdict = "passed"
    /\ state.retry_count >= 1
    /\ ~FeedbackPresent

\* ------------------------------------------------------------------- C8
\* C8: after every orchestrator, judge and physical_design invocation of a
\* run the node's router returns one of the values its conditional edge
\* knows (route_after_judge never returns None), and no run stops on a
\* routing error.
C8_RouterTotality ==
    /\ last = "orchestrator"
          => route_after_orchestrator(state) \in DOMAIN orchestrator_targets
    /\ last = JudgeName(app) => route_after_judge(state) \in DOMAIN judge_targets
    /\ last = "physical_design"
          => route_after_physical_design(state) \in DOMAIN physical_design_targets
    /\ node # ROUTING_ERROR

\* route_after_judge has routed a failed hardening-rework verification.
C8_Witness ==
    /\ last = JudgeName(app)
    /\ state.status = "FAILED_VERIFICATION"
    /\ pd_failures >= 1
    /\ node = "orchestrator"

\* ------------------------------------------------------------------ C10
\* C10: the first node invoked is the orchestrator, and the node invoked
\* right after a judge invocation that ended in FAILED_VERIFICATION is the
\* orchestrator, never the rtl_engineer.
C10_BudgetCheckFirst ==
    /\ trace = <<>> => node = "orchestrator"
    /\ trace # <<>> => trace[1] = "orchestrator"
    /\ (last = JudgeName(app) /\ state.status = "FAILED_VERIFICATION")
          => node = "orchestrator"
    /\ \A i \in 1..(Len(trace) - 1) :
          trace[i + 1] = "rtl_engineer" => trace[i] \in {"librarian", "physical_design"}

\* The orchestrator is scheduled right after a second failed verification.
C10_Witness ==
    /\ last = JudgeName(app)
    /\ state.status = "FAILED_VERIFICATION"
    /\ state.retry_count = 2
    /\ node = "orchestrator"

\* ------------------------------------------------------------------- C9
\* The routers as functions of the record: a node has just returned, the
\* record holds any status, and the node's conditional edge is resolved.
Statuses == {"NEW", "START", "TASK_APPROVED", "SPEC_READY", "CODED",
             "FAILED_VERIFICATION", "VERIFIED", "FAILED_HARDENING",
             "GDSII_HARDENED", "HARDENED", "HALTED", "UNKNOWN"}

\* The statuses the routing table maps (GDSII_HARDENED is the scripts' name
\* of HARDENED).
RouterTable == {"HALTED", "TASK_APPROVED", "SPEC_READY", "CODED",
                "FAILED_VERIFICATION", "VERIFIED", "FAILED_HARDENING",
                "GDSII_HARDENED"}

\* The edge of the node that just ran is still to be resolved.
ROUTING == "routing"

RouterInit ==
    /\ app \in Apps
    /\ toolchain = "live"
    /\ \E st \in Statuses : state = [initial_state(app) EXCEPT !.status = st]
    /\ last \in {"orchestrator", JudgeName(app), "physical_design"}
    /\ node = ROUTING
    /\ trace = <<last>>
    /\ verdict = "none"
    /\ pd_failures = 0
    /\ outcomes = <<>>
    /\ returned = NoUpdate
    /\ other = NoRun
    /\ NoTestbench

RouteAfterOrchestrator ==
    /\ node = ROUTING
    /\ last = "orchestrator"
    /\ node' = after_orchestrator(app, state)
    /\ UNCHANGED <<app, toolchain, state, trace, last, verdict, pd_failures,
                   outcomes, returned, other, tb_vars>>

RouteAfterJudge ==
    /\ node = ROUTING
    /\ last = JudgeName(app)
    /\ node' = after_judge(app, state)
    /\ UNCHANGED <<app, toolchain, state, trace, last, verdict, pd_failures,
                   outcomes, returned, other, tb_vars>>

RouteAfterPhysicalDesign ==
    /\ node = ROUTING
    /\ last = "physical_design"
    /\ node' = after_physical_design(app, state)
    /\ UNCHANGED <<app, toolchain, state, trace, last, verdict, pd_failures,
                   outcomes, returned, other, tb_vars>>

RouterNext ==
    \/ RouteAfterOrchestrator
    \/ RouteAfterJudge
    \/ RouteAfterPhysicalDesign

RouterSpec == RouterInit /\ [][RouterNext]_vars

\* C9: when the record's status after a node is not one the routing table
\* maps, resolving the node's edge aborts the run with a routing error; no
\* next node is chosen for it.
C9_UnmappedStatusAborts ==
    (node # ROUTING /\ state.status \notin RouterTable) => node = ROUTING_ERROR

\* ------------------------------------------------------------ scenarios
IsPrefix(p, s) == Len(p) <= Len(s) /\ \A i \in 1..Len(p) : p[i] = s[i]

\* One pass from the budget check to the verdict.
Cycle(a) == <<"orchestrator", "librarian", "rtl_engineer", JudgeName(a)>>

\* A hardening pass, and the rework pass that follows a failed one.
Rework(a) == <<"physical_design", "rtl_engineer", JudgeName(a)>>

\* ------------------------------------------------------------------ C11
\* Every judge invocation so far has failed.
AllFailed == \A i \in 1..Len(outcomes) : outcomes[i] = "failed"

ScenarioC(a) ==
    Cycle(a) \o Cycle(a) \o Cycle(a) \o Cycle(a) \o Cycle(a)
        \o <<"orchestrator", "human_intervention">>

ScenarioB(a) == Cycle(a) \o Cycle(a) \o <<"physical_design">>

\* C12: in a run whose judge fails once and then passes and whose
\* physical_design hardens, retry_count is 1 from the failure on, the
\* orchestrator approves the task again, the rtl_engineer is invoked a
\* second time with judge_feedback present, and the run stops after
\* physical_design with status GDSII_HARDENED and retry_count = 1.
C12_ScenarioB ==
    (outcomes # <<>> /\ IsPrefix(outcomes, <<"failed", "passed", "hardened">>)) =>
        /\ IsPrefix(trace, ScenarioB(app))
        /\ state.retry_count = 1
        /\ Len(trace) = 5 => (state.status = "TASK_APPROVED" /\ node = "librarian")
        /\ Len(trace) = 6 => (node = "rtl_engineer" /\ FeedbackPresent)
        /\ Len(outcomes) = 3 <=> Stopped
        /\ Stopped
              => /\ trace = ScenarioB(app)
                 /\ state.status = "GDSII_HARDENED"
                 /\ ~state.budget_alert

\* The run the scripts' own stand-ins produce has ended.
C12_Witness ==
    /\ toolchain = "simulated"
    /\ outcomes = <<"failed", "passed", "hardened">>
    /\ Stopped

\* ------------------------------------------------------------------ C13
ScenarioA(a) == Cycle(a) \o <<"physical_design">>

\* C13: in a run whose judge passes on its first invocation and whose
\* physical_design hardens, the nodes invoked are exactly orchestrator,
\* librarian, rtl_engineer, judge, physical_design, and the run stops there
\* with status GDSII_HARDENED and retry_count = 0.
C13_ScenarioA ==
    (outcomes # <<>> /\ IsPrefix(outcomes, <<"passed", "hardened">>)) =>
        /\ IsPrefix(trace, ScenarioA(app))
        /\ state.retry_count = 0
        /\ Len(outcomes) = 2 <=> Stopped
        /\ Stopped
              => /\ trace = ScenarioA(app)
                 /\ node \in {END, "end"}
                 /\ state.status = "GDSII_HARDENED"

\* The happy path has ended.
C13_Witness ==
    /\ outcomes = <<"passed", "hardened">>
    /\ Stopped

\* ------------------------------------------------------------------ C14
ScenarioD(a) == Cycle(a) \o Rework(a) \o <<"physical_design">>

\* C14: the node invoked after a physical_design invocation that failed is
\* the rtl_engineer; in a run whose judge passes, whose physical_design
\* fails once and then (the judge passing again) hardens, the run stops
\* after the second physical_design with status GDSII_HARDENED.
C14_ScenarioD ==
    /\ (last = "physical_design" /\ state.status = "FAILED_HARDENING")
          => node = "rtl_engineer"
    /\ (Len(outcomes) >= 2
           /\ IsPrefix(outcomes, <<"passed", "rework", "passed", "hardened">>))
          => /\ IsPrefix(trace, ScenarioD(app))
             /\ Len(trace) >= 6 => trace[6] = "rtl_engineer"
             /\ Len(outcomes) = 4 <=> Stopped
             /\ Stopped
                   => /\ trace = ScenarioD(app)
                      /\ state.status = "GDSII_HARDENED"

\* One failed hardening pass was reworked and the run has ended hardened.
C14_Witness ==
    /\ outcomes = <<"passed", "rework", "passed", "hardened">>
    /\ Stopped

\* ------------------------------------------------------------------ C15
\* C15: a run that stops without a routing error stops with status
\* GDSII_HARDENED right after physical_design or with status HALTED right
\* after human_intervention, and with no other status.
C15_ExitStatuses ==
    (Stopped /\ node # ROUTING_ERROR) =>
        \/ state.status = "GDSII_HARDENED" /\ last = "physical_design"
        \/ state.status = "HALTED" /\ last = "human_intervention"

\* The silicon graph has stopped on its router's "end".
C15_Witness ==
    /\ app = "silicon"
    /\ node = "end"
    /\ state.status = "GDSII_HARDENED"

\* ------------------------------------------------------------------ C16
\* The keys each node's update may hold.
Writes(n) ==
    CASE n = "orchestrator"       -> {"status", "budget_alert"}
      [] n = "librarian"          -> {"spec_block", "status"}
      [] n = "rtl_engineer"       -> {"rtl_code", "status"}
      [] n = "physical_design"    -> {"status", "pd_feedback"}
      [] n = "human_intervention" -> {"status"}
      [] OTHER                    -> {"judge_feedback", "status", "retry_count"}

\* C16: after each node invocation every key of the returned update holds
\* the update's value and every other key of the record is unchanged (the
\* update holds only keys the node declares); task_description is the
\* run's initial one in every state.
C16_MergeFrame ==
    /\ [](state.task_description = initial_state(app).task_description)
    /\ [][ /\ DOMAIN returned' \subseteq Writes(node)
           /\ DOMAIN state' = Fields
           /\ \A k \in Fields :
                 state'[k] = IF k \in DOMAIN returned' THEN returned'[k]
                                                       ELSE state[k] ]_vars

\* A failed judge has written three keys and left the others as they were.
C16_Witness ==
    /\ last = JudgeName(app)
    /\ DOMAIN returned = {"judge_feedback", "status", "retry_count"}
    /\ state.retry_count = 2
    /\ state.rtl_code = "lte_pss_gen"
    /\ state.task_description = initial_state(app).task_description

\* ------------------------------------------------------------------ C17
\* C17: budget_alert starts FALSE, never goes from TRUE to FALSE, and goes
\* from FALSE to TRUE only in an orchestrator invocation that also sets
\* status = HALTED; no other node's update holds the key.
C17_AlertMonotonic ==
    /\ state.budget_alert = FALSE
    /\ [][ /\ state.budget_alert => state'.budget_alert
           /\ state'.budget_alert # state.budget_alert
                 => (node = "orchestrator" /\ state'.status = "HALTED")
           /\ "budget_alert" \in DOMAIN returned' => node = "orchestrator" ]_vars

\* The alert was raised and has survived human_intervention.
C17_Witness ==
    /\ state.budget_alert
    /\ last = "human_intervention"

\* ------------------------------------------------------------------ C18
\* The merge as a function: any record, any update, merged once and again.
\* Largest retry_count of the records and updates tried.
MaxMergeRetry == 2

MergeKeys == {"status", "retry_count", "budget_alert", "judge_feedback"}

Records ==
    { [initial_state("airwave") EXCEPT !.status = st, !.retry_count = n,
                                       !.budget_alert = b, !.judge_feedback = f] :
        st \in {"NEW", "CODED", "HALTED"}, n \in 0..MaxMergeRetry,
        b \in BOOLEAN, f \in {None, "ERR-001"} }

\* Every dict over some of the keys.
Updates == { [k \in K |-> r[k]] : r \in Records, K \in SUBSET MergeKeys }

MERGING == "merge"

MergeInit ==
    /\ app = "airwave"
    /\ toolchain = "live"
    /\ state \in Records
    /\ returned \in Updates
    /\ node = MERGING
    /\ trace = <<>>
    /\ last = "none"
    /\ verdict = "none"
    /\ pd_failures = 0
    /\ outcomes = <<>>
    /\ other = NoRun
    /\ NoTestbench

ApplyMerge ==
    /\ node = MERGING
    /\ Len(trace) < 2
    /\ state' = Merge(state, returned)
    /\ trace' = Append(trace, MERGING)
    /\ UNCHANGED <<app, toolchain, node, last, verdict, pd_failures, outcomes,
                   returned, other, tb_vars>>

MergeSpec == MergeInit /\ [][ApplyMerge]_vars

\* C18: merging an update all of whose keys carry the values the record
\* already holds leaves the record unchanged, and merging an update a
\* second time changes nothing the first merge did not.
C18_MergeIdempotent ==
    [][ /\ (\A k \in DOMAIN returned : returned[k] = state[k]) => state' = state
        /\ trace # <<>> => state' = state ]_vars

\* An update of all four keys has been merged twice.
C18_Witness ==
    /\ Len(trace) = 2
    /\ DOMAIN returned = MergeKeys
    /\ state.retry_count = MaxMergeRetry
    /\ \A k \in MergeKeys : state[k] = returned[k]

\* ------------------------------------------------------------------ C19
\* Two runs of the process on one compiled graph, their node invocations
\* interleaved: the scheduler parks the run that is stepping and resumes the
\* other.  Run 1 is any run; run 2 is a run of the scripts' stand-ins.
ThisRun ==
    [id |-> 3 - other.id, app |-> app, toolchain |-> toolchain, state |-> state,
     node |-> node, trace |-> trace, last |-> last, verdict |-> verdict,
     pd_failures |-> pd_failures, outcomes |-> outcomes, returned |-> returned]

Switch ==
    /\ other.id # 0
    /\ other' = ThisRun
    /\ app' = other.app
    /\ toolchain' = other.toolchain
    /\ state' = other.state
    /\ node' = other.node
    /\ trace' = other.trace
    /\ last' = other.last
    /\ verdict' = other.verdict
    /\ pd_failures' = other.pd_failures
    /\ outcomes' = other.outcomes
    /\ returned' = other.returned
    /\ UNCHANGED tb_vars

PairInit ==
    /\ RunInit
    /\ \E a \in Apps :
          other = [id |-> 2, app |-> a, toolchain |-> "simulated",
                   state |-> initial_state(a), node |-> "orchestrator",
                   trace |-> <<>>, last |-> "none", verdict |-> "none",
                   pd_failures |-> 0, outcomes |-> <<>>, returned |-> NoUpdate]

PairNext == Next \/ Switch

PairSpec == PairInit /\ [][PairNext]_vars

\* What a run that executes alone has done and holds, from the outcomes its
\* own judge and physical_design invocations reported.
Failures(outs) == Cardinality({i \in 1..Len(outs) : outs[i] = "failed"})

\* The nodes invoked after outcome i, up to the next one that reports.
Follow(a, outs, i) ==
    CASE outs[i] = "failed" ->
            IF Failures(SubSeq(outs, 1, i)) < RETRY_LIMIT
            THEN Cycle(a) ELSE <<"orchestrator", "human_intervention">>
      [] outs[i] = "passed" -> <<"physical_design">>
      [] outs[i] = "rework" -> <<"rtl_engineer", JudgeName(a)>>
      [] OTHER -> <<>>

RECURSIVE PathAlone(_, _, _)
PathAlone(a, outs, k) ==
    IF k = 0 THEN Cycle(a) ELSE PathAlone(a, outs, k - 1) \o Follow(a, outs, k)

Invoked(r, n) == \E i \in 1..Len(r.trace) : r.trace[i] = n

RecordAlone(r) ==
    [task_description |-> initial_state(r.app).task_description,
     spec_block       |-> IF Invoked(r, "librarian") THEN "PSS_SPEC" ELSE None,
     rtl_code         |-> IF Invoked(r, "rtl_engineer") THEN "lte_pss_gen" ELSE None,
     judge_feedback   |-> IF r.verdict = "failed" THEN "ERR-001" ELSE None,
     pd_feedback      |-> IF \E i \in 1..Len(r.outcomes) : r.outcomes[i] = "rework"
                          THEN "PD-ADVISORY" ELSE None,
     status           |->
        CASE r.last = "none" -> initial_state(r.app).status
          [] r.last = "orchestrator" ->
                IF Failures(r.outcomes) >= RETRY_LIMIT THEN "HALTED"
                                                       ELSE "TASK_APPROVED"
          [] r.last = "librarian" -> "SPEC_READY"
          [] r.last = "rtl_engineer" -> "CODED"
          [] r.last = "physical_design" ->
                IF r.outcomes[Len(r.outcomes)] = "hardened"
                THEN "GDSII_HARDENED" ELSE "FAILED_HARDENING"
          [] r.last = "human_intervention" -> "HALTED"
          [] OTHER -> IF r.verdict = "failed" THEN "FAILED_VERIFICATION"
                                              ELSE "VERIFIED",
     retry_count      |-> Failures(r.outcomes),
     budget_alert     |-> /\ Failures(r.outcomes) >= RETRY_LIMIT
                          /\ r.last \in {"orchestrator", "human_intervention"}]

AsAlone(r) ==
    /\ IsPrefix(r.trace, PathAlone(r.app, r.outcomes, Len(r.outcomes)))
    /\ r.outcomes # <<>>
          => Len(r.trace) >= Len(PathAlone(r.app, r.outcomes, Len(r.outcomes) - 1))
    /\ r.state = RecordAlone(r)
    /\ r.toolchain = "simulated"
          => /\ IsPrefix(r.trace, ScenarioB(r.app))
             /\ IsPrefix(r.outcomes, <<"failed", "passed", "hardened">>)

\* C19: with the node invocations of two runs interleaved in any order, the
\* nodes each run has invoked and the record it holds are those of the run
\* executing alone on the same outcomes of its own judge and physical_design
\* invocations; nothing of the other run shows in them.
C19_RunsIndependent == AsAlone(ThisRun) /\ AsAlone(other)

\* Both runs are under way, each one failed verification behind it.
C19_Witness ==
    /\ Running
    /\ other.node \in Nodes(other.app)
    /\ state.retry_count = 1
    /\ other.state.retry_count = 1
    /\ last = "librarian"
    /\ other.last = "rtl_engineer"

\* ------------------------------------------------------------------ C20
\* A node invocation that raises instead of returning (StageFailure).
STAGE_FAILURE == "stage_failure"

\* The updates the node to invoke could have been building when it failed.
WouldReturn(n) ==
    CASE n = "orchestrator"       -> {orchestrator_node(state)}
      [] n = "librarian"          -> {librarian_node(state)}
      [] n = "rtl_engineer"       -> {rtl_engineer_node(state)}
      [] n = "physical_design"    -> {physical_design_node(state),
                                      physical_design_failed(state)}
      [] n = "human_intervention" -> {human_intervention(state),
                                      silicon_human_intervention(state)}
      [] OTHER -> {verification_judge_node(state, f) : f \in BOOLEAN}

\* Mutant: the keys the node had set before it failed are merged.
FailedMerge_partial(s, u) == Merge(s, u)

\* The record after a failed invocation: nothing of the update is merged.
FailedMerge(s, u) == s

StageFailure ==
    /\ Running
    /\ \E u \in WouldReturn(node) : state' = FailedMerge(state, u)
    /\ returned' = NoUpdate
    /\ node' = STAGE_FAILURE
    /\ Record(node)
    /\ UNCHANGED <<app, toolchain, verdict, pd_failures, outcomes, other,
                   tb_vars>>

FailNext == Next \/ StageFailure

FailSpec == Init /\ [][FailNext]_vars

\* C20: a node invocation that ends in StageFailure stops the run with the
\* failure as its outcome and leaves the record exactly as it was; no node
\* is invoked after it.
C20_StageFailureAtomic ==
    [][ /\ node # STAGE_FAILURE
        /\ node' = STAGE_FAILURE => (state' = state /\ ~Running') ]_vars

\* The judge failed irrecoverably on a second pass; the record is still the
\* one the rtl_engineer left.
C20_Witness ==
    /\ node = STAGE_FAILURE
    /\ last = JudgeName(app)
    /\ state.status = "CODED"
    /\ state.retry_count = 1

\* ------------------------------------------------------------------ C21
\* The cocotb capture loop of LTEBaseTestbench.capture_axis_data, which
\* test_lte_pss_generator of tb_lte_pss_gen.py repeats with 62 written in.
MaxSamples == 3

\* Values of the 32-bit m_axis_tdata the design may present: [31:16] = Q,
\* [15:0] = I.
TDataSamples == {1, 131071, 2147450880}

\* Two's complement handling of a 16-bit field.
Signed16(v) == IF v > 32767 THEN v - 65536 ELSE v

i_val(raw_tdata) == Signed16(raw_tdata % 65536)

q_val(raw_tdata) == Signed16((raw_tdata \div 65536) % 65536)

\* Mutant: the loop runs while the list is not longer than asked.
LoopCondition_le(data, expected) == Len(data) <= expected

\* while len(i_data) < expected_samples
LoopCondition(data, expected) == Len(data) < expected

Handshake(d) == d.m_axis_tvalid = 1 /\ d.m_axis_tready = 1

\* What the design drives; m_axis_tready is the testbench's.
Driven(d) ==
    { [d EXCEPT !.m_axis_tvalid = v, !.m_axis_tlast = l, !.m_axis_tdata = x] :
        v \in {0, 1}, l \in {0, 1}, x \in TDataSamples }

TESTBENCH == "cocotb"

\* run_test up to the reset: m_axis_tready driven 0.
TbInit ==
    /\ app = "silicon"
    /\ toolchain = "live"
    /\ state = initial_state(app)
    /\ node = TESTBENCH
    /\ trace = <<>>
    /\ last = "none"
    /\ verdict = "none"
    /\ pd_failures = 0
    /\ outcomes = <<>>
    /\ returned = NoUpdate
    /\ other = NoRun
    /\ dut = [m_axis_tvalid |-> 0, m_axis_tready |-> 0, m_axis_tlast |-> 0,
              m_axis_tdata |-> 1]
    /\ i_data = <<>>
    /\ q_data = <<>>
    /\ expected_samples \in 1..MaxSamples
    /\ tb = "reset"

\* A rising edge of reset_sequence: the design may already present data.
reset_sequence ==
    /\ tb = "reset"
    /\ dut' \in Driven(dut)
    /\ UNCHANGED <<i_data, q_data, expected_samples, tb>>
    /\ UNCHANGED <<app, toolchain, state, node, trace, last, verdict,
                   pd_failures, outcomes, returned, other>>

\* capture_axis_data up to the first test of the loop condition.
capture_axis_data ==
    /\ tb = "reset"
    /\ dut' = [dut EXCEPT !.m_axis_tready = 1]
    /\ i_data' = <<>>
    /\ q_data' = <<>>
    /\ tb' = IF LoopCondition(i_data', expected_samples) THEN "capture"
             ELSE "done"
    /\ UNCHANGED expected_samples
    /\ UNCHANGED <<app, toolchain, state, node, trace, last, verdict,
                   pd_failures, outcomes, returned, other>>

\* One pass of the loop body: the next rising edge, the signals read after
\* ReadOnly, the sample appended on a handshake, break on tlast, and the
\* loop condition tested again.
RisingEdge ==
    /\ tb = "capture"
    /\ dut' \in Driven(dut)
    /\ IF Handshake(dut')
       THEN /\ i_data' = Append(i_data, i_val(dut'.m_axis_tdata))
            /\ q_data' = Append(q_data, q_val(dut'.m_axis_tdata))
            /\ tb' = IF dut'.m_axis_tlast = 1 THEN "done"
                     ELSE IF LoopCondition(i_data', expected_samples)
                          THEN "capture" ELSE "done"
       ELSE UNCHANGED <<i_data, q_data, tb>>
    /\ UNCHANGED expected_samples
    /\ UNCHANGED <<app, toolchain, state, node, trace, last, verdict,
                   pd_failures, outcomes, returned, other>>

CaptureNext ==
    \/ reset_sequence
    \/ capture_axis_data
    \/ RisingEdge

CaptureSpec == TbInit /\ [][CaptureNext]_vars

\* C21: the capture loop appends a sample only on an edge where
\* m_axis_tvalid = 1 and m_axis_tready = 1, at the end of what it holds; it
\* returns exactly when it has appended the expected_samples-th sample or a
\* sample whose m_axis_tlast = 1, so it never holds more than
\* expected_samples samples, and an edge with m_axis_tvalid = 0 does not end
\* it.
C21_CaptureLoop ==
    /\ [](Len(i_data) <= expected_samples /\ Len(q_data) = Len(i_data))
    /\ [][ /\ i_data' # i_data =>
                /\ tb = "capture"
                /\ Handshake(dut')
                /\ i_data' = Append(i_data, i_val(dut'.m_axis_tdata))
                /\ q_data' = Append(q_data, q_val(dut'.m_axis_tdata))
           /\ tb = "capture" =>
                (tb' = "done" <=>
                    /\ i_data' # i_data
                    /\ \/ Len(i_data') = expected_samples
                       \/ dut'.m_axis_tlast = 1)
           /\ (tb = "capture" /\ dut'.m_axis_tvalid = 0) =>
                (tb' = "capture" /\ i_data' = i_data) ]_vars

\* The loop was asked for three samples and returned two: the design raised
\* m_axis_tlast on the second, after an edge without m_axis_tvalid.
C21_Witness ==
    /\ tb = "done"
    /\ expected_samples = 3
    /\ i_data = <<-1, -32768>>
    /\ q_data = <<1, 32767>>
    /\ dut.m_axis_tlast = 1

\* ------------------------------------------------------------------ C22
\* C22: physical_design is invoked only straight after a judge invocation
\* that returned VERIFIED, and the invocation after every rtl_engineer
\* invocation (first pass, verification retry or hardening rework) is the
\* judge's.
C22_HardenOnlyVerified ==
    [][ /\ node = "physical_design" =>
              /\ last = JudgeName(app)
              /\ verdict = "passed"
              /\ "status" \in DOMAIN returned
              /\ returned.status = "VERIFIED"
              /\ state.status = "VERIFIED"
        /\ last = "rtl_engineer" =>
              /\ node = JudgeName(app)
              /\ last' = JudgeName(app) ]_vars

\* physical_design has run again after a hardening rework in a run that
\* also had a verification retry.
C22_Witness ==
    /\ last = "physical_design"
    /\ pd_failures >= 1
    /\ state.retry_count >= 1
    /\ state.status = "GDSII_HARDENED"
    /\ \E i \in 1..(Len(trace) - 3) :
          /\ trace[i] = "physical_design"
          /\ trace[i + 1] = "rtl_engineer"
          /\ trace[i + 2] = JudgeName(app)
          /\ trace[i + 3] = "physical_design"

\* ------------------------------------------------------------------ C23
\* airwave_swarm_app and silicon_swarm_4g.app run from one initial record on
\* one toolchain, their node invocations interleaved in any order.
EquivInit ==
    /\ RunInit
    /\ app = "airwave"
    /\ \E a \in Apps :
          /\ state = initial_state(a)
          /\ other = [id |-> 2, app |-> "silicon", toolchain |-> toolchain,
                      state |-> initial_state(a), node |-> "orchestrator",
                      trace |-> <<>>, last |-> "none", verdict |-> "none",
                      pd_failures |-> 0, outcomes |-> <<>>,
                      returned |-> NoUpdate]

EquivSpec == EquivInit /\ [][PairNext]_vars

\* The silicon node that stands where an airwave node does.
SiliconName(n) == IF n = JudgeName("airwave") THEN JudgeName("silicon") ELSE n

\* A run is over without an error: airwave reaches END; silicon reaches END
\* or is sent to "end", which names no node.
Ended(r) == r.node = END \/ (r.app = "silicon" /\ r.node = "end")

\* What the two runs are compared on.
Observed(r) ==
    [status       |-> r.state.status,
     retry_count  |-> r.state.retry_count,
     budget_alert |-> r.state.budget_alert,
     has_judge_feedback |-> r.state.judge_feedback # None,
     has_pd_feedback    |-> r.state.pd_feedback # None]

Equivalent(aw, si) ==
    /\ si.trace = [i \in 1..Len(aw.trace) |-> SiliconName(aw.trace[i])]
    /\ Observed(si) = Observed(aw)
    /\ Ended(si) <=> Ended(aw)
    /\ (si.node \in Nodes(si.app)) <=> (aw.node \in Nodes(aw.app))
    /\ aw.node \in Nodes(aw.app) => si.node = SiliconName(aw.node)

\* C23: after the same number of node invocations on the same judge and
\* physical_design outcomes, the two graphs have invoked the same nodes in
\* the same order (judge for verification_judge), hold the same status,
\* retry_count, budget_alert and presence of feedback, and either both have
\* ended or both go on to the same node.
C23_WorkflowsEquivalent ==
    LET aw == IF app = "airwave" THEN ThisRun ELSE other
        si == IF app = "airwave" THEN other ELSE ThisRun
    IN  (aw.outcomes = si.outcomes /\ Len(aw.trace) = Len(si.trace))
            => Equivalent(aw, si)

\* Both runs are over, hardened after one failed verification: airwave at
\* END, silicon sent to "end".
C23_Witness ==
    /\ app = "airwave"
    /\ node = END
    /\ other.node = "end"
    /\ outcomes = <<"failed", "passed", "hardened">>
    /\ other.outcomes = outcomes
    /\ state.status = "GDSII_HARDENED"
    /\ other.state.status = "GDSII_HARDENED"

====
